---- MODULE Spec2Model ----
(***************************************************************************)
(* Verification model of the custom-select widget (CustomSelect and its    *)
(* getSiblingOfSameTag traversal helper) and of the input family           *)
(* (InputRoot with its InputText and InputSlider interface components).    *)
(* The two are independent widgets: Spec runs the select with the input    *)
(* family idle, SpecInput runs the input family with the select idle.      *)
(*                                                                          *)
(* The widget is a <custom-select> holding one <custom-trigger> and one    *)
(* <custom-group> whose element children are <custom-option>s.  Options are *)
(* identified by their position 1..Len(options) in the group.  The         *)
(* `disabled` and `value` attributes and the text of an option are authored *)
(* markup and never written by the widget; the `selected` attribute is.    *)
(* Values and texts are those of the demo page, distinct per option.  Any   *)
(* subset of the options may be authored `selected`.  The widget starts    *)
(* attached and Closed, with focus outside it.                              *)
(*                                                                          *)
(* A handler is modelled as the composition of the methods it calls, each  *)
(* a function from state record to state record; one action is one whole   *)
(* listener, public method or deferred callback.  Every focus move runs    *)
(* the focusout and focusin listeners it triggers.  All wait() callbacks   *)
(* queued before a frame run back to back in that frame and the callback   *)
(* is idempotent, so one flag stands for the queue.                        *)
(*                                                                          *)
(* events, calls, lastOp and presses record what the last operation did;   *)
(* the widget never reads them.                                             *)
(*                                                                          *)
(* The input family is one <input-root> whose descendants <input-text> and *)
(* <input-slider> are identified by their position in document order.  The *)
(* page loads the element definitions as module scripts, so every element  *)
(* is upgraded after the markup is parsed: the model starts when the root  *)
(* and all its interface components are attached.  Page scripts and the    *)
(* user act on the root's properties and attributes and on the components  *)
(* through pointer, keyboard and focus; the `value`, `disabled`,           *)
(* `readonly` and `required` attributes of a component are written by the  *)
(* root and by the component itself only, and min, max and step are        *)
(* authored integers.  Strings are TLA+ strings, numbers are integers plus *)
(* NaN; String(n) and Number(s) are computed digit by digit.  The position *)
(* of the thumb is layout state outside the model: the deferred re-render  *)
(* callback of the root, which tests it, may take either branch, and how   *)
(* many of these callbacks are queued is not tracked: one may run for any  *)
(* slider at any time.  All                                                *)
(* sliders share one track geometry, so a pointer position is the same     *)
(* fraction of every track.  An internal event is handled by the root      *)
(* inside the handler that dispatched it.  notifications, internal and     *)
(* inputOp record what the last operation did.                             *)
(*                                                                          *)
(* SpecWidgets runs either widget, for what is said of both.                *)
(* SpecSlider runs a root holding one slider over several ranges, and       *)
(* SpecRange lets a script rewrite the slider's min, max and step as well.  *)
(* SpecVariant runs the CustomSelect of part_001 on the select's state.     *)
(* SpecLifecycle detaches and re-attaches the widgets; registry holds the   *)
(* listeners each connectedCallback registered, a listener being the        *)
(* function object passed to addEventListener.                              *)
(* SpecSibling runs getSiblingOfSameTag one loop iteration at a time on     *)
(* child lists that mix custom options, other HTML elements and elements    *)
(* that are not HTML elements (such as <svg>).                              *)
(***************************************************************************)
EXTENDS Integers, Sequences, FiniteSets, TLC

\* ------------------------------------------------------------------ bounds
MaxChildren == 3      \* most options authored in the group
MaxInterfaces == 2    \* most interface components inside the root
MaxNumber == 150      \* largest integer written as a numeral
MaxSiblings == 4      \* most children of the parent getSiblingOfSameTag reads
MaxFocusOptions == 2  \* most options authored in the runs of SpecFair
MaxBinds == 4         \* most functions the lifecycle callbacks of one widget create

\* --------------------------------------------------------------- encodings
NoItem == 0           \* null: no option referenced
TriggerEl == -1       \* the <custom-trigger> as event target / active element
BodyEl == -2          \* any element outside the widget (document.body)

OptionValues == <<"option1", "option2", "option3", "option4", "option5",
                  "option6", "option7">>
Texts == <<"Option 1", "Option 2", "Option 3", "Option 4", "Option 5",
           "Option 6", "Option 7">>
AuthoredTriggerText == "Select an option"
Keys == {"ArrowDown", "ArrowUp", "Enter", " ", "Escape", "Tab", "a"}

VARIABLES
    options,        \* authored markup: sequence of [disabled]
    selectedAttr,   \* set of options carrying the `selected` attribute
    open,           \* the widget's `open` attribute
    selectedItem,   \* #selectedItem
    focusedItem,    \* #focusedItem
    activeElement,  \* document.activeElement
    triggerText,    \* textContent of the trigger
    pendingCheck,   \* a wait().then(...) callback is queued for the next frame
    events,         \* 'change' events dispatched by the last operation, each
                    \* with what its listener finds in the widget
    calls,          \* #setSelected calls made by the last operation
    lastOp,         \* the last operation and its arguments
    presses         \* #selectedItem before and after each key press of the
                    \* current run of one arrow key pressed while closed

VARIABLES
    root,           \* the <input-root>: #value and its attributes
    interfaces,     \* its interface components, in document order
    focused,        \* the interface component holding focus, 0 for none
    notifications,  \* external events dispatched by the last operation
    internal,       \* internal events handled during the last operation
    inputOp         \* the last operation on the input family

VARIABLES
    finder,         \* one call of getSiblingOfSameTag: its arguments, the tree
                    \* it reads, its local `sibling`, its result and position
    registry        \* per widget: whether it is attached, the listeners its
                    \* connectedCallback registered that are still registered,
                    \* and how many callbacks have created functions so far

selectVars == <<options, selectedAttr, open, selectedItem, focusedItem,
                activeElement, triggerText, pendingCheck, events, calls,
                lastOp, presses>>
inputVars == <<root, interfaces, focused, notifications, internal, inputOp>>
vars == <<selectVars, inputVars, finder, registry>>

Indices == 1..Len(options)
Enabled == {i \in Indices : ~options[i].disabled}

Min(S) == CHOOSE x \in S : \A y \in S : x <= y

\* ------------------------------------------------------------ DOM queries
\* The children of <custom-group> as getSiblingOfSameTag sees them.
Kids(marked) ==
    [i \in Indices |-> [tag |-> "CUSTOM-OPTION", html |-> TRUE,
                        disabled |-> options[i].disabled,
                        selected |-> i \in marked]]

\* element.matches(test) for the selectors the widget uses
Matches(el, test) ==
    CASE test = "" -> TRUE
      [] test = ":not([disabled])" -> ~el.disabled
      [] test = ":not([disabled],[selected])" -> ~el.disabled /\ ~el.selected

\* getSiblingOfSameTag: kids is parent.children (<<>> when element has no
\* parent), element a position in it.
RECURSIVE SiblingSearch(_, _, _, _, _)
SiblingSearch(kids, element, direction, test, sibling) ==
    LET candidate ==
            IF direction > 0
            THEN (IF sibling < Len(kids) THEN sibling + 1 ELSE 1)
            ELSE (IF sibling > 1 THEN sibling - 1 ELSE Len(kids))
    IN  IF ~kids[candidate].html THEN NoItem
        ELSE IF candidate = element THEN NoItem
        ELSE IF kids[candidate].tag = kids[element].tag
                /\ Matches(kids[candidate], test)
             THEN candidate
        ELSE SiblingSearch(kids, element, direction, test, candidate)

\* mutant: the search stops at the end of the child list instead of wrapping
RECURSIVE SiblingSearchNoWrap(_, _, _, _, _)
SiblingSearchNoWrap(kids, element, direction, test, sibling) ==
    LET candidate == IF direction > 0 THEN sibling + 1 ELSE sibling - 1
    IN  IF candidate \notin DOMAIN kids THEN NoItem
        ELSE IF kids[candidate].tag = kids[element].tag
                /\ Matches(kids[candidate], test)
             THEN candidate
        ELSE SiblingSearchNoWrap(kids, element, direction, test, candidate)

getSiblingNoWrap(kids, element, direction, test) ==
    IF kids = <<>> THEN NoItem
    ELSE SiblingSearchNoWrap(kids, element, direction, test, element)

getSiblingOfSameTag(kids, element, direction, test) ==
    IF kids = <<>> THEN NoItem
    ELSE SiblingSearch(kids, element, direction, test, element)

\* this.querySelector(CUSTOM_OPTION_SELECTOR): first enabled option
QueryOption == IF Enabled = {} THEN NoItem ELSE Min(Enabled)

\* this.querySelector(`${CUSTOM_OPTION_SELECTOR}[selected]`)
QuerySelectedOption(marked) ==
    IF Enabled \cap marked = {} THEN NoItem ELSE Min(Enabled \cap marked)

\* this.querySelector(`${CUSTOM_OPTION_SELECTOR}[value="${value}"]`)
QueryOptionByValue(value) ==
    LET S == {i \in Enabled : OptionValues[i] = value}
    IN  IF S = {} THEN NoItem ELSE Min(S)

\* mutant: closest("custom-option"), disabled options included
ClosestOptionAny(target) == IF target \in Indices THEN target ELSE NoItem

\* target.closest(CUSTOM_OPTION_SELECTOR) for a target that is an element
ClosestOption(target) == IF target \in Enabled THEN target ELSE NoItem

\* ------------------------------------------------- the widget's own state
\* The mutable state as one record, so that a handler is a composition of
\* the methods it calls.
Cur ==
    [selectedAttr |-> selectedAttr, open |-> open,
     selectedItem |-> selectedItem, focusedItem |-> focusedItem,
     activeElement |-> activeElement, triggerText |-> triggerText,
     pendingCheck |-> pendingCheck, events |-> <<>>, calls |-> <<>>]

\* get selectedValue
SelectedValue(s) ==
    IF s.selectedItem = NoItem THEN "null" ELSE OptionValues[s.selectedItem]

\* never schedules the deferred check
OnFocusoutNoCheck(s) == s

\* #onFocusout: schedules the deferred check while open
OnFocusout(s) ==
    IF ~s.open THEN s ELSE [s EXCEPT !.pendingCheck = TRUE]

\* #handleFocusIn
HandleFocusIn(s, target) ==
    IF ClosestOption(target) # NoItem
    THEN [s EXCEPT !.focusedItem = ClosestOption(target)]
    ELSE s

\* el.focus() / el.blur() / a focus move by the user: focusout bubbles from
\* the element losing focus, focusin from the one gaining it.
Focus(s, el) ==
    IF s.activeElement = el THEN s
    ELSE LET s1 == IF s.activeElement # BodyEl THEN OnFocusout(s) ELSE s
             s2 == [s1 EXCEPT !.activeElement = el]
         IN  IF el # BodyEl THEN HandleFocusIn(s2, el) ELSE s2

\* #focusItem
FocusItem(s, item) ==
    IF item = NoItem THEN s
    ELSE IF options[item].disabled THEN s
    ELSE Focus(s, item)

\* #focusTrigger
FocusTrigger(s) == Focus(s, TriggerEl)

\* mutant: opening always focuses the first enabled option
UpdateUIFirstOption(s) ==
    IF s.open THEN FocusItem(s, QueryOption) ELSE s

\* #updateUI (attributeChangedCallback for "open")
UpdateUI(s) ==
    IF s.open
    THEN FocusItem(s, IF s.selectedItem # NoItem THEN s.selectedItem
                      ELSE QueryOption)
    ELSE s

\* open() / close() / toggle(): toggleAttribute runs the attribute callback
\* only when the attribute really changes
OpenSelect(s) == IF s.open THEN s ELSE UpdateUI([s EXCEPT !.open = TRUE])
CloseSelect(s) == IF ~s.open THEN s ELSE UpdateUI([s EXCEPT !.open = FALSE])
ToggleSelect(s) == IF s.open THEN CloseSelect(s) ELSE OpenSelect(s)

\* #updateTrigger
UpdateTrigger(s) ==
    IF s.selectedItem # NoItem
    THEN [s EXCEPT !.triggerText = Texts[s.selectedItem]]
    ELSE s

\* mutant: 'change' is dispatched before the marker and the trigger are
\* updated
SetSelectedNotifiesFirst(s, item) ==
    LET s1 == IF s.selectedItem # NoItem
              THEN [s EXCEPT !.selectedAttr = @ \ {s.selectedItem}]
              ELSE s
        currentItem == s.selectedItem
        s2 == [s1 EXCEPT !.selectedItem = item,
                         !.calls = Append(@, [item |-> item,
                                              prev |-> currentItem])]
    IN  IF item # NoItem /\ ~options[item].disabled /\ item # currentItem
        THEN LET s3 == [s2 EXCEPT !.events =
                           Append(@, [type |-> "change",
                                      value |-> SelectedValue(s2),
                                      selectedItem |-> s2.selectedItem,
                                      marked |-> s2.selectedAttr,
                                      label |-> s2.triggerText])]
             IN  UpdateTrigger([s3 EXCEPT !.selectedAttr = @ \cup {item}])
        ELSE s2

\* mutant: 'change' is dispatched even when item is the current selection
SetSelectedAlwaysNotifies(s, item) ==
    LET s1 == IF s.selectedItem # NoItem
              THEN [s EXCEPT !.selectedAttr = @ \ {s.selectedItem}]
              ELSE s
        s2 == [s1 EXCEPT !.selectedItem = item,
                         !.calls = Append(@, [item |-> item,
                                              prev |-> s.selectedItem])]
    IN  IF item # NoItem /\ ~options[item].disabled
        THEN LET s3 == [s2 EXCEPT !.selectedAttr = @ \cup {item}]
                 s4 == UpdateTrigger(s3)
             IN  [s4 EXCEPT !.events =
                      Append(@, [type |-> "change",
                                 value |-> SelectedValue(s4),
                                 selectedItem |-> s4.selectedItem,
                                 marked |-> s4.selectedAttr,
                                 label |-> s4.triggerText])]
        ELSE s2

\* mutant: the previous selection keeps its selected attribute
SetSelectedKeepsMarker(s, item) ==
    LET currentItem == s.selectedItem
        s2 == [s EXCEPT !.selectedItem = item,
                        !.calls = Append(@, [item |-> item,
                                             prev |-> currentItem])]
    IN  IF item # NoItem /\ ~options[item].disabled /\ item # currentItem
        THEN LET s3 == [s2 EXCEPT !.selectedAttr = @ \cup {item}]
                 s4 == UpdateTrigger(s3)
             IN  [s4 EXCEPT !.events =
                      Append(@, [type |-> "change",
                                 value |-> SelectedValue(s4),
                                 selectedItem |-> s4.selectedItem,
                                 marked |-> s4.selectedAttr,
                                 label |-> s4.triggerText])]
        ELSE s2

\* #setSelected
SetSelected(s, item) ==
    LET s1 == IF s.selectedItem # NoItem
              THEN [s EXCEPT !.selectedAttr = @ \ {s.selectedItem}]
              ELSE s
        currentItem == s.selectedItem
        s2 == [s1 EXCEPT !.selectedItem = item,
                         !.calls = Append(@, [item |-> item,
                                              prev |-> currentItem])]
    IN  IF item # NoItem /\ ~options[item].disabled /\ item # currentItem
        THEN LET s3 == [s2 EXCEPT !.selectedAttr = @ \cup {item}]
                 s4 == UpdateTrigger(s3)
             IN  [s4 EXCEPT !.events =
                      Append(@, [type |-> "change",
                                 value |-> SelectedValue(s4),
                                 selectedItem |-> s4.selectedItem,
                                 marked |-> s4.selectedAttr,
                                 label |-> s4.triggerText])]
        ELSE s2

\* falls back to the first eligible option when no value matches
SetSelectedValueOrFirst(s, value) ==
    IF QueryOptionByValue(value) # NoItem
    THEN SetSelected(s, QueryOptionByValue(value))
    ELSE SetSelected(s, QueryOption)

\* set selectedValue
SetSelectedValue(s, value) ==
    IF QueryOptionByValue(value) # NoItem
    THEN SetSelected(s, QueryOptionByValue(value))
    ELSE s

\* #getCurrentNavigationElement
GetCurrentNavigationElement(s) ==
    IF s.open
    THEN (IF s.focusedItem # NoItem THEN s.focusedItem
          ELSE IF s.selectedItem # NoItem THEN s.selectedItem
          ELSE QueryOption)
    ELSE (IF s.selectedItem # NoItem THEN s.selectedItem ELSE QueryOption)

\* mutant: the sibling is selected in the Open state too
HandleArrowNavigationSelects(s, key) ==
    LET currentElement == GetCurrentNavigationElement(s)
        direction == IF key = "ArrowDown" THEN 1 ELSE -1
        sibling == getSiblingOfSameTag(Kids(s.selectedAttr), currentElement,
                                       direction, ":not([disabled])")
    IN  IF currentElement = NoItem THEN s
        ELSE IF sibling = NoItem THEN s
        ELSE SetSelected(s, sibling)

\* mutant: the sibling search is not restricted to enabled options
HandleArrowNavigationAnySibling(s, key) ==
    LET currentElement == GetCurrentNavigationElement(s)
        direction == IF key = "ArrowDown" THEN 1 ELSE -1
        sibling == getSiblingOfSameTag(Kids(s.selectedAttr), currentElement,
                                       direction, "")
    IN  IF currentElement = NoItem THEN s
        ELSE IF sibling = NoItem THEN s
        ELSE IF s.open THEN FocusItem(s, sibling)
        ELSE SetSelected(s, sibling)

\* #handleArrowNavigation
HandleArrowNavigation(s, key) ==
    LET currentElement == GetCurrentNavigationElement(s)
        direction == IF key = "ArrowDown" THEN 1 ELSE -1
        sibling == getSiblingOfSameTag(Kids(s.selectedAttr), currentElement,
                                       direction, ":not([disabled])")
    IN  IF currentElement = NoItem THEN s
        ELSE IF sibling = NoItem THEN s
        ELSE IF s.open THEN FocusItem(s, sibling)
        ELSE SetSelected(s, sibling)

\* #handleClosedKeydown
HandleClosedKeydown(s, target, key) ==
    IF target = TriggerEl /\ key \in {"Enter", " "} THEN OpenSelect(s)
    ELSE IF target = TriggerEl /\ key = "Escape" THEN Focus(s, BodyEl)
    ELSE IF key \in {"ArrowDown", "ArrowUp"} THEN HandleArrowNavigation(s, key)
    ELSE s

\* mutant: Enter/Space commits without closing
HandleOpenKeydownStaysOpen(s, key) ==
    CASE key \in {"ArrowDown", "ArrowUp"} -> HandleArrowNavigation(s, key)
      [] key \in {"Enter", " "} ->
            FocusTrigger(
                IF s.focusedItem # NoItem /\ ~options[s.focusedItem].disabled
                THEN SetSelected(s, s.focusedItem)
                ELSE s)
      [] key \in {"Escape", "Tab"} -> FocusTrigger(CloseSelect(s))
      [] OTHER -> s

\* mutant: Escape/Tab commit the focused option like Enter
HandleOpenKeydownEscapeCommits(s, key) ==
    CASE key \in {"ArrowDown", "ArrowUp"} -> HandleArrowNavigation(s, key)
      [] key \in {"Enter", " ", "Escape", "Tab"} ->
            FocusTrigger(
                IF s.focusedItem # NoItem /\ ~options[s.focusedItem].disabled
                THEN CloseSelect(SetSelected(s, s.focusedItem))
                ELSE CloseSelect(s))
      [] OTHER -> s

\* mutant: Tab moves focus like ArrowDown
HandleOpenKeydownTabNavigates(s, key) ==
    CASE key \in {"ArrowDown", "ArrowUp"} -> HandleArrowNavigation(s, key)
      [] key \in {"Enter", " "} ->
            FocusTrigger(
                IF s.focusedItem # NoItem /\ ~options[s.focusedItem].disabled
                THEN CloseSelect(SetSelected(s, s.focusedItem))
                ELSE s)
      [] key = "Tab" -> HandleArrowNavigation(s, "ArrowDown")
      [] key = "Escape" -> FocusTrigger(CloseSelect(s))
      [] OTHER -> s

\* #handleOpenKeydown
HandleOpenKeydown(s, key) ==
    CASE key \in {"ArrowDown", "ArrowUp"} -> HandleArrowNavigation(s, key)
      [] key \in {"Enter", " "} ->
            FocusTrigger(
                IF s.focusedItem # NoItem /\ ~options[s.focusedItem].disabled
                THEN CloseSelect(SetSelected(s, s.focusedItem))
                ELSE s)
      [] key \in {"Escape", "Tab"} -> FocusTrigger(CloseSelect(s))
      [] OTHER -> s

\* #onKeydown
OnKeydown(s, target, key) ==
    IF s.open THEN HandleOpenKeydown(s, key)
    ELSE HandleClosedKeydown(s, target, key)

\* #onClick
OnClick(s, target) ==
    IF target = TriggerEl THEN ToggleSelect(s)
    ELSE IF ClosestOption(target) # NoItem
            /\ ClosestOption(target) \notin s.selectedAttr
         THEN CloseSelect(SetSelected(s, ClosestOption(target)))
    ELSE s

\* closes wherever the focus is
FocusoutCheckAlwaysCloses(s) == CloseSelect([s EXCEPT !.pendingCheck = FALSE])

\* the callback of #onFocusout's wait().then(...)
FocusoutCheck(s) ==
    LET s1 == [s EXCEPT !.pendingCheck = FALSE]
    IN  IF s1.activeElement = BodyEl THEN CloseSelect(s1) ELSE s1

\* #initializeSelected (connectedCallback)
InitializeSelected(s) ==
    IF QuerySelectedOption(s.selectedAttr) # NoItem
    THEN UpdateTrigger([s EXCEPT !.selectedItem =
                                      QuerySelectedOption(s.selectedAttr)])
    ELSE s

\* ----------------------------------------------------------------- actions
Op(name, key, el, value) ==
    [op |-> name, key |-> key, shift |-> FALSE, el |-> el, value |-> value,
     wasOpen |-> open]

\* the run of closed-state presses of one arrow key, restarted once it is
\* one press longer than the option list
Presses(s, op) ==
    IF op.op = "keydown" /\ op.key \in {"ArrowDown", "ArrowUp"} /\ ~op.wasOpen
    THEN IF lastOp.op = "keydown" /\ lastOp.key = op.key /\ ~lastOp.wasOpen
            /\ presses # <<>> /\ Len(presses) <= Len(options)
         THEN Append(presses, s.selectedItem)
         ELSE <<selectedItem, s.selectedItem>>
    ELSE <<>>

\* the values a script hands to the root's value setter
JsString(s) == [t |-> "string", s |-> s, n |-> 0]
JsNumber(n) == [t |-> "number", s |-> "", n |-> n]
JsNull == [t |-> "null", s |-> "", n |-> 0]

\* the input family while the select runs: an empty, untouched <input-root>
InputIdle ==
    /\ root = [value |-> "", attr |-> <<>>, disabled |-> FALSE,
               readonly |-> FALSE, required |-> FALSE]
    /\ interfaces = <<>>
    /\ focused = 0
    /\ notifications = <<>>
    /\ internal = <<>>
    /\ inputOp = [op |-> "idle", arg |-> JsNull, flag |-> FALSE]

\* no call of getSiblingOfSameTag under observation
FinderIdle ==
    finder = [children |-> <<>>, element |-> NoItem, direction |-> 1,
              test |-> "", sibling |-> NoItem, result |-> NoItem,
              pc |-> "returned"]

\* --------------------------------------------------- listener registry
\* The widgets whose attach and detach callbacks register listeners: the
\* select, the root, an <input-slider> inside the root and an <input-text>.
Widgets == {"select", "root", "text", "slider"}

\* addEventListener / removeEventListener arguments: the target, the event
\* type and the callback.  A callback kept in a field is the same function
\* every time (id 0); fn.bind(this) and an arrow function expression make a
\* new function at every evaluation, told apart by id.
Listeners(target, pairs, id) ==
    {[target |-> target, type |-> p[1], handler |-> p[2], id |-> id] :
        p \in pairs}

\* the listeners connectedCallback of widget w adds, its new functions
\* numbered id
ConnectedListeners(w, id) ==
    CASE w = "select" ->
            Listeners("self", {<<"click", "#onClick">>,
                               <<"keydown", "#onKeydown">>,
                               <<"focusout", "#onFocusout">>,
                               <<"focusin", "#handleFocusIn">>}, 0)
      [] w = "root" ->
            Listeners("self",
                      {<<"_input-internal-change", "#handleInternalChangeFunc">>,
                       <<"_input-internal-focus", "#handleInternalFocusFunc">>,
                       <<"_input-internal-blur", "#handleInternalBlurFunc">>}, 0)
      [] w = "text" -> Listeners("self", {<<"focus", "arrow function">>}, id)
      [] OTHER ->
            Listeners("self", {<<"mousedown", "#handleMouseDown">>,
                               <<"touchstart", "#handleTouchStart">>,
                               <<"keydown", "#handleKeyDown">>,
                               <<"focus", "#handleFocus">>,
                               <<"blur", "#handleBlur">>}, id)
            \cup Listeners("window",
                           {<<"mousemove", "#handleMouseMove">>,
                            <<"touchmove", "#handleTouchMove">>,
                            <<"mouseup", "#handleInteractionEnd">>,
                            <<"touchend", "#handleInteractionEnd">>}, id)

\* the listeners disconnectedCallback of widget w asks to remove;
\* InputText has no disconnectedCallback
DisconnectedRemovals(w, id) ==
    CASE w \in {"select", "root"} -> ConnectedListeners(w, 0)
      [] w = "text" -> {}
      [] OTHER ->
            Listeners("window",
                      {<<"mousemove", "#handleMouseMove">>,
                       <<"touchmove", "#handleTouchMove">>,
                       <<"mouseup", "#handleInteractionEnd">>,
                       <<"touchend", "#handleInteractionEnd">>}, id)

\* the listener lists after connectedCallback / disconnectedCallback of w:
\* adding a listener already in the list and removing one that is not in it
\* do nothing
Connected(r, w) ==
    [r EXCEPT ![w] = [attached |-> TRUE,
                      listeners |-> @.listeners
                                    \cup ConnectedListeners(w, @.binds + 1),
                      binds |-> IF w \in {"text", "slider"}
                                THEN @.binds + 1 ELSE @.binds]]
Disconnected(r, w) ==
    [r EXCEPT ![w] = [attached |-> FALSE,
                      listeners |-> @.listeners
                                    \ DisconnectedRemovals(w, @.binds + 1),
                      binds |-> IF w = "slider" THEN @.binds + 1 ELSE @.binds]]

\* every widget attached once, as the page loads
RegistryIdle ==
    registry = [w \in Widgets |->
                   Connected([x \in Widgets |->
                                 [attached |-> FALSE, listeners |-> {},
                                  binds |-> 0]], w)[w]]

Apply(s, op) ==
    /\ selectedAttr' = s.selectedAttr
    /\ open' = s.open
    /\ selectedItem' = s.selectedItem
    /\ focusedItem' = s.focusedItem
    /\ activeElement' = s.activeElement
    /\ triggerText' = s.triggerText
    /\ pendingCheck' = s.pendingCheck
    /\ events' = s.events
    /\ calls' = s.calls
    /\ lastOp' = op
    /\ presses' = Presses(s, op)
    /\ UNCHANGED options
    /\ UNCHANGED inputVars
    /\ UNCHANGED <<finder, registry>>

Markup ==
    UNION {[1..n -> [disabled : BOOLEAN]] : n \in 1..MaxChildren}

Init ==
    /\ options \in Markup
    /\ \E authored \in SUBSET Indices :
          LET s == InitializeSelected(
                      [selectedAttr |-> authored, open |-> FALSE,
                       selectedItem |-> NoItem, focusedItem |-> NoItem,
                       activeElement |-> BodyEl,
                       triggerText |-> AuthoredTriggerText,
                       pendingCheck |-> FALSE, events |-> <<>>, calls |-> <<>>])
          IN  /\ selectedAttr = s.selectedAttr
              /\ open = s.open
              /\ selectedItem = s.selectedItem
              /\ focusedItem = s.focusedItem
              /\ activeElement = s.activeElement
              /\ triggerText = s.triggerText
              /\ pendingCheck = s.pendingCheck
              /\ events = s.events
              /\ calls = s.calls
    /\ lastOp = [op |-> "connected", key |-> "", shift |-> FALSE, el |-> BodyEl,
                 value |-> "", wasOpen |-> FALSE]
    /\ presses = <<>>
    /\ InputIdle
    /\ FinderIdle
    /\ RegistryIdle

\* a click event whose target is the trigger or an option
Click(el) == Apply(OnClick(Cur, el), Op("click", "", el, ""))

\* a keydown event on the focused element, inside the widget; the handlers
\* read event.key only, never event.shiftKey
Keydown(key, shift) ==
    /\ activeElement # BodyEl
    /\ Apply(OnKeydown(Cur, activeElement, key),
             [Op("keydown", key, activeElement, "") EXCEPT !.shift = shift])

\* the user moves focus (pointer or Tab) to another element
UserFocus(el) ==
    /\ el # activeElement
    /\ Apply(Focus(Cur, el), Op("focus", "", el, ""))

\* the frame callback of a pending focus-loss check
RunFocusoutCheck ==
    /\ pendingCheck
    /\ Apply(FocusoutCheck(Cur), Op("check", "", BodyEl, ""))

CallOpen == Apply(OpenSelect(Cur), Op("open", "", BodyEl, ""))
CallClose == Apply(CloseSelect(Cur), Op("close", "", BodyEl, ""))
CallToggle == Apply(ToggleSelect(Cur), Op("toggle", "", BodyEl, ""))
AssignSelectedValue(value) ==
    Apply(SetSelectedValue(Cur, value), Op("selectedValue", "", BodyEl, value))

\* values a script may assign: every option's value and one no option has
AssignableValues == {OptionValues[i] : i \in Indices} \cup {"missing"}

Next ==
    \/ \E el \in {TriggerEl} \cup Indices : Click(el)
    \/ \E key \in Keys, shift \in BOOLEAN :
          (shift => key = "Tab") /\ Keydown(key, shift)
    \/ \E el \in {BodyEl, TriggerEl} \cup Indices : UserFocus(el)
    \/ RunFocusoutCheck
    \/ CallOpen
    \/ CallClose
    \/ CallToggle
    \/ \E value \in AssignableValues : AssignSelectedValue(value)

Spec == Init /\ [][Next]_vars

\* The select with the deferred check certain to run: requestAnimationFrame
\* runs a queued callback at the next frame.  Focus moves between the body,
\* the trigger and the options whatever their number, so these runs take
\* the groups of up to MaxFocusOptions options.
InitFair == Init /\ Len(options) <= MaxFocusOptions
SpecFair == InitFair /\ [][Next]_vars /\ WF_vars(RunFocusoutCheck)

TypeOK ==
    /\ selectedAttr \subseteq Indices
    /\ open \in BOOLEAN
    /\ selectedItem \in {NoItem} \cup Indices
    /\ focusedItem \in {NoItem} \cup Indices
    /\ activeElement \in {BodyEl, TriggerEl} \cup Indices
    /\ pendingCheck \in BOOLEAN
    /\ Len(events) <= 1
    /\ Len(calls) <= 1

\* ============================================================ input family
\* ------------------------------------------------- strings and numbers
Absent == <<>>                  \* attribute not present: getAttribute is null
NaN == -1000000                 \* the number NaN
Digits == <<"0", "1", "2", "3", "4", "5", "6", "7", "8", "9">>

RECURSIVE NatToString(_)
NatToString(n) ==
    IF n < 10 THEN Digits[n + 1]
    ELSE NatToString(n \div 10) \o Digits[(n % 10) + 1]

\* String(n), n.toString() for a number n
NumberToString(n) ==
    IF n = NaN THEN "NaN"
    ELSE IF n < 0 THEN "-" \o NatToString(-n)
    ELSE NatToString(n)

\* the numeral of each number up to MaxNumber
Numerals == [n \in 0..MaxNumber |-> NatToString(n)]

\* the number each numeral stands for
NumeralValues ==
    [s \in {Numerals[n] : n \in 0..MaxNumber} |->
        CHOOSE n \in 0..MaxNumber : Numerals[n] = s]

\* Number(s) for a string s: 0 for the empty string, the value of a
\* numeral, NaN for anything else
StringToNumber(s) ==
    IF s = "" THEN 0
    ELSE IF s \in DOMAIN NumeralValues THEN NumeralValues[s]
    ELSE NaN

\* Number(attribute || fallback): attribute is Absent or <<string>>, the
\* fallback a number
NumberOr(attribute, fallback) ==
    IF attribute = Absent \/ attribute = <<"">> THEN fallback
    ELSE StringToNumber(attribute[1])

MathMin(a, b) == IF a = NaN \/ b = NaN THEN NaN ELSE IF a < b THEN a ELSE b
MathMax(a, b) == IF a = NaN \/ b = NaN THEN NaN ELSE IF a > b THEN a ELSE b
Plus(a, b) == IF a = NaN \/ b = NaN THEN NaN ELSE a + b
\* a !== b for numbers: NaN differs from everything, itself included
NotSame(a, b) == a = NaN \/ b = NaN \/ a # b
\* rounds down instead of to the nearest integer
MathFloor(num, den) == num \div den
\* Math.round(num / den) for den > 0: halves round up
MathRound(num, den) == (2 * num + den) \div (2 * den)

\* treats every argument as a string already
StringOfUnconverted(v) == v.s

\* String(v)
StringOf(v) ==
    CASE v.t = "string" -> v.s
      [] v.t = "number" -> NumberToString(v.n)
      [] OTHER -> "null"

\* --------------------------------------------- the interface components
Flags == {"disabled", "readonly", "required"}

\* an <input-text> as authored, before the root's first push
TextInterface ==
    [kind |-> "text", value |-> Absent,
     disabled |-> FALSE, readonly |-> FALSE, required |-> FALSE,
     content |-> "", num |-> 0, min |-> 0, max |-> 0, step |-> 0,
     isInteracting |-> FALSE]

\* an <input-slider min max step> as authored, before the root's first push
SliderInterface(min, max, step) ==
    [kind |-> "slider", value |-> Absent,
     disabled |-> FALSE, readonly |-> FALSE, required |-> FALSE,
     content |-> "", num |-> MathMax(min, MathMin(max, min)),
     min |-> min, max |-> max, step |-> step,
     isInteracting |-> FALSE]

\* Math.max(this.#min, Math.min(this.#max, x))
Clamp(c, x) == MathMax(c.min, MathMin(c.max, x))

\* attributeChangedCallback("value", old, new) of a component
ValueAttributeChanged(c, new) ==
    IF c.value = new THEN c
    ELSE IF c.kind = "text"
    THEN [c EXCEPT !.value = new,
                   !.content = IF new = Absent THEN "" ELSE new[1]]
    ELSE [c EXCEPT !.value = new, !.num = Clamp(c, NumberOr(new, c.min))]

\* attributeChangedCallback of a flag: the text component re-runs
\* #updateInputState, the slider only mirrors it into ARIA
FlagAttributeChanged(c, name, flag) ==
    IF c[name] = flag THEN c
    ELSE LET c1 == [c EXCEPT ![name] = flag]
         IN  IF c.kind = "text"
             THEN [c1 EXCEPT !.content =
                       IF c1.value = Absent THEN "" ELSE c1.value[1]]
             ELSE c1

\* the value getter of a component, as a string
ComponentValue(c) ==
    IF c.kind = "text"
    THEN (IF c.value = Absent THEN "" ELSE c.value[1])
    ELSE NumberToString(c.num)

\* ------------------------------------------------------ the coordinator
\* The input family as one record, so that a handler is a composition of
\* the methods and callbacks it runs.
CurInput ==
    [root |-> root, interfaces |-> interfaces, focused |-> focused,
     notifications |-> <<>>, internal |-> <<>>, moments |-> <<>>]

\* pushes the root's disabled flag under all three names
PushDisabledThrice(r, c) ==
    LET c1 == IF c.value # <<r.value>>
              THEN ValueAttributeChanged(c, <<r.value>>)
              ELSE c
    IN  FlagAttributeChanged(
            FlagAttributeChanged(
                FlagAttributeChanged(c1, "disabled", r.disabled),
                "readonly", r.disabled),
            "required", r.disabled)

\* #updateInterfaceState, the body of the loop for one component; the
\* callback it queues for a slider is RerenderTrick
PushState(r, c) ==
    LET c1 == IF c.value # <<r.value>>
              THEN ValueAttributeChanged(c, <<r.value>>)
              ELSE c
    IN  FlagAttributeChanged(
            FlagAttributeChanged(
                FlagAttributeChanged(c1, "disabled", r.disabled),
                "readonly", r.readonly),
            "required", r.required)

\* mutant: the first component given a new value answers the push with an
\* InternalChange of its own
UpdateInterfaceStateEchoed(s) ==
    LET pushed == [i \in DOMAIN s.interfaces |-> PushState(s.root, s.interfaces[i])]
        changed == {i \in DOMAIN s.interfaces :
                       pushed[i].value # s.interfaces[i].value}
        first == CHOOSE i \in changed : \A j \in changed : i <= j
    IN  [s EXCEPT !.interfaces = pushed,
                  !.focused = IF @ # 0 /\ pushed[@].kind = "text"
                                 /\ pushed[@].disabled
                              THEN 0 ELSE @,
                  !.internal =
                      IF changed = {} THEN @
                      ELSE Append(@, [type |-> "change", source |-> first,
                                      value |-> ComponentValue(pushed[first]),
                                      differs |-> FALSE,
                                      rootDisabled |-> s.root.disabled,
                                      after |-> s.root.value,
                                      emitted |-> <<>>, seen |-> <<>>])]

\* #updateInterfaceState.  A focused inner <input> that becomes disabled
\* stops being the focused element without a blur event.
UpdateInterfaceState(s) ==
    LET pushed == [i \in DOMAIN s.interfaces |-> PushState(s.root, s.interfaces[i])]
    IN  [s EXCEPT !.interfaces = pushed,
                  !.focused = IF @ # 0 /\ pushed[@].kind = "text"
                                 /\ pushed[@].disabled
                              THEN 0 ELSE @]

\* setAttribute("value", ...) / removeAttribute("value") on the root and
\* the attributeChangedCallback it runs
SetValueAttribute(s, new) ==
    IF s.root.attr = new THEN s
    ELSE UpdateInterfaceState(
             [s EXCEPT !.root.attr = new,
                       !.root.value = IF new = Absent THEN "" ELSE new[1]])

\* the value setter
SetValue(s, v) ==
    UpdateInterfaceState(
        SetValueAttribute([s EXCEPT !.root.value = StringOf(v)],
                          <<StringOf(v)>>))

\* toggleAttribute(name, flag) on the root and the attributeChangedCallback
ToggleFlag(s, name, flag) ==
    IF s.root[name] = flag THEN s
    ELSE UpdateInterfaceState([s EXCEPT !.root[name] = flag])

\* the disabled / readonly / required setters
SetFlag(s, name, flag) == UpdateInterfaceState(ToggleFlag(s, name, flag))

\* this.dispatchEvent(new Event(type)); moments keeps what a listener of the
\* event finds when it reads the root's value and the value of each component
Notify(s, type) ==
    [s EXCEPT !.notifications = Append(@, type),
              !.moments =
                  Append(@, [type |-> type, value |-> s.root.value,
                             attrs |-> [j \in DOMAIN s.interfaces |->
                                           s.interfaces[j].value],
                             mirrors |-> [j \in DOMAIN s.interfaces |->
                                             ComponentValue(s.interfaces[j])]])]

\* notifies even when the value is the canonical one
HandleInternalChangeAlwaysNotifies(s, newValue) ==
    Notify(SetValueAttribute([s EXCEPT !.root.value = newValue], <<newValue>>),
           "input")

\* #handleInternalChange
HandleInternalChange(s, newValue) ==
    IF s.root.value # newValue
    THEN Notify(SetValueAttribute([s EXCEPT !.root.value = newValue],
                                  <<newValue>>),
                "input")
    ELSE s

\* #handleInternalFocus
HandleInternalFocus(s) == Notify(s, "focus")

\* dispatches 'blur' before 'change'
HandleInternalBlurReversed(s) == Notify(Notify(s, "blur"), "change")

\* #handleInternalBlur
HandleInternalBlur(s) == Notify(Notify(s, "change"), "blur")

\* component i dispatches an internal event, which bubbles to the root and
\* is handled there before dispatchEvent returns
Dispatch(s, i, type, value) ==
    LET h == CASE type = "change" -> HandleInternalChange(s, value)
               [] type = "focus" -> HandleInternalFocus(s)
               [] OTHER -> HandleInternalBlur(s)
    IN  [h EXCEPT !.internal =
            Append(@, [type |-> type, source |-> i, value |-> value,
                       differs |-> s.root.value # value,
                       rootDisabled |-> s.root.disabled,
                       after |-> h.root.value,
                       emitted |-> SubSeq(h.notifications,
                                          Len(s.notifications) + 1,
                                          Len(h.notifications)),
                       seen |-> SubSeq(h.moments, Len(s.moments) + 1,
                                       Len(h.moments))])]

\* ------------------------------------------- handlers of the components
\* InputText.#handleInput, the inner <input> holding `typed`
TextHandleInput(s, i, typed) ==
    LET c == [s.interfaces[i] EXCEPT !.content = typed]
    IN  Dispatch([s EXCEPT !.interfaces[i] = ValueAttributeChanged(c, <<typed>>)],
                 i, "change", typed)

\* InputSlider.#updateValueFromPosition, the pointer at pct percent of the
\* track's width from its left edge (negative left of it, over 100 right of
\* it)
UpdateValueFromPosition(s, i, pct) ==
    LET c == s.interfaces[i]
        percentage == MathMax(0, MathMin(100, pct))
        steps == MathRound(percentage * (c.max - c.min), 100 * c.step)
        steppedValue == c.min + steps * c.step
        c1 == [c EXCEPT !.num = Clamp(c, steppedValue)]
        text == NumberToString(c1.num)
    IN  Dispatch([s EXCEPT !.interfaces[i] = ValueAttributeChanged(c1, <<text>>)],
                 i, "change", text)

\* InputSlider.#handleMouseDown
HandleMouseDown(s, i, pct) ==
    IF s.interfaces[i].disabled \/ s.interfaces[i].readonly THEN s
    ELSE UpdateValueFromPosition(
             [s EXCEPT !.interfaces[i].isInteracting = TRUE], i, pct)

\* InputSlider.#handleMouseMove
HandleMouseMove(s, i, pct) ==
    IF ~s.interfaces[i].isInteracting THEN s
    ELSE UpdateValueFromPosition(s, i, pct)

\* commits on every pointer-up, in a drag session or not
HandleInteractionEndAlways(s, i) ==
    Dispatch([s EXCEPT !.interfaces[i].isInteracting = FALSE], i, "blur", "")

\* InputSlider.#handleInteractionEnd
HandleInteractionEnd(s, i) ==
    IF ~s.interfaces[i].isInteracting THEN s
    ELSE Dispatch([s EXCEPT !.interfaces[i].isInteracting = FALSE],
                  i, "blur", "")

SliderKeys == {"ArrowRight", "ArrowUp", "ArrowLeft", "ArrowDown", "Home",
               "End", "PageUp", "PageDown", "a"}

\* InputSlider.#handleKeyDown
HandleKeyDown(s, i, key) ==
    LET c == s.interfaces[i]
        newValue ==
            CASE key \in {"ArrowRight", "ArrowUp"} ->
                    MathMin(c.max, Plus(c.num, c.step))
              [] key \in {"ArrowLeft", "ArrowDown"} ->
                    MathMax(c.min, Plus(c.num, -c.step))
              [] key = "Home" -> c.min
              [] key = "End" -> c.max
              [] key = "PageUp" -> MathMin(c.max, Plus(c.num, c.step * 10))
              [] key = "PageDown" -> MathMax(c.min, Plus(c.num, -(c.step * 10)))
              [] OTHER -> c.num
        c1 == [c EXCEPT !.num = newValue]
        text == NumberToString(newValue)
    IN  IF c.disabled \/ c.readonly THEN s
        ELSE IF NotSame(newValue, c.num)
        THEN Dispatch([s EXCEPT !.interfaces[i] =
                                    ValueAttributeChanged(c1, <<text>>)],
                      i, "change", text)
        ELSE s

\* the mousemove / mouseup listeners on window, one per slider, run in the
\* order the sliders were attached
RECURSIVE WindowMouseMove(_, _, _)
WindowMouseMove(s, i, pct) ==
    IF i > Len(s.interfaces) THEN s
    ELSE WindowMouseMove(
             IF s.interfaces[i].kind = "slider" THEN HandleMouseMove(s, i, pct)
             ELSE s,
             i + 1, pct)

RECURSIVE WindowMouseUp(_, _)
WindowMouseUp(s, i) ==
    IF i > Len(s.interfaces) THEN s
    ELSE WindowMouseUp(
             IF s.interfaces[i].kind = "slider" THEN HandleInteractionEnd(s, i)
             ELSE s,
             i + 1)

\* focus arrives at component i: InputText forwards it to the inner <input>
\* unless disabled (#handleFocus of the inner input), InputSlider.#handleFocus
ComponentFocus(s, i) ==
    IF s.interfaces[i].kind = "text"
    THEN IF s.interfaces[i].disabled THEN s
         ELSE Dispatch([s EXCEPT !.focused = i], i, "focus", "")
    ELSE IF s.interfaces[i].disabled THEN [s EXCEPT !.focused = i]
         ELSE Dispatch([s EXCEPT !.focused = i], i, "focus", "")

\* focus leaves the focused component: #handleBlur of either kind
ComponentBlur(s) ==
    IF s.focused = 0 THEN s
    ELSE Dispatch([s EXCEPT !.focused = 0], s.focused, "blur", "")

\* the setTimeout callback of #updateInterfaceState for slider i; atZero
\* says whether the thumb is drawn at 0% (or has no position yet)
RerenderTrick(s, i, atZero) ==
    LET c == s.interfaces[i]
        value == StringToNumber(s.root.value)
    IN  [s EXCEPT !.interfaces[i] =
            IF atZero /\ value # NaN /\ value > c.min
            THEN ValueAttributeChanged(ValueAttributeChanged(c, Absent),
                                       <<s.root.value>>)
            ELSE c]

\* --------------------------------------------- actions of the input family
SliderConfigs == {<<0, 100, 50>>}       \* authored <<min, max, step>>
SetterValues == {JsString(""), JsString("abc"), JsNumber(50), JsNumber(150)}
AttributeValues == {Absent, <<"50">>}   \* value attribute written by a script
AuthoredValues == {Absent, <<"50">>}    \* value attribute in the markup
TypedTexts == {"abc", "100"}             \* content of the inner <input>
Positions == {0, 53}                    \* pointer, percent of the track

\* the authored components; no handler depends on whether a text component
\* precedes or follows a slider, so the text components come first
InputMarkup ==
    LET authored == {TextInterface}
                    \cup {SliderInterface(k[1], k[2], k[3]) : k \in SliderConfigs}
    IN  {m \in UNION {[1..n -> authored] : n \in 1..MaxInterfaces} :
            \A i, j \in DOMAIN m :
                (m[i].kind = "text" /\ m[j].kind = "slider") => i < j}

TextComponents == {i \in DOMAIN interfaces : interfaces[i].kind = "text"}
Sliders == {i \in DOMAIN interfaces : interfaces[i].kind = "slider"}

\* the operation: "event" for what the user or a timer does, otherwise the
\* script's write and what was written
InputOp(name, arg, flag) == [op |-> name, arg |-> arg, flag |-> flag]

\* the select while the input family runs: one option, never touched
SelectIdle ==
    /\ options = <<[disabled |-> FALSE]>>
    /\ selectedAttr = {}
    /\ open = FALSE
    /\ selectedItem = NoItem
    /\ focusedItem = NoItem
    /\ activeElement = BodyEl
    /\ triggerText = AuthoredTriggerText
    /\ pendingCheck = FALSE
    /\ events = <<>>
    /\ calls = <<>>
    /\ lastOp = [op |-> "connected", key |-> "", shift |-> FALSE, el |-> BodyEl,
                 value |-> "", wasOpen |-> FALSE]
    /\ presses = <<>>

ApplyInput(s, op) ==
    /\ root' = s.root
    /\ interfaces' = s.interfaces
    /\ focused' = s.focused
    /\ notifications' = s.notifications
    /\ internal' = s.internal
    /\ inputOp' = op
    /\ UNCHANGED selectVars
    /\ UNCHANGED <<finder, registry>>

\* connectedCallback of the root with every component in place
InitInput ==
    /\ SelectIdle
    /\ \E attr \in AuthoredValues, d, ro, rq \in BOOLEAN, markup \in InputMarkup :
          LET s == UpdateInterfaceState(
                      [root |-> [value |-> IF attr = Absent THEN "" ELSE attr[1],
                                 attr |-> attr, disabled |-> d,
                                 readonly |-> ro, required |-> rq],
                       interfaces |-> markup, focused |-> 0,
                       notifications |-> <<>>, internal |-> <<>>])
          IN  /\ root = s.root
              /\ interfaces = s.interfaces
              /\ focused = s.focused
              /\ notifications = s.notifications
              /\ internal = s.internal
    /\ inputOp = InputOp("connected", JsNull, FALSE)
    /\ FinderIdle
    /\ RegistryIdle

\* root.value = v
AssignValue(v) ==
    ApplyInput(SetValue(CurInput, v), InputOp("value", v, FALSE))

\* root.setAttribute("value", ...) / root.removeAttribute("value")
WriteValueAttribute(new) ==
    ApplyInput(SetValueAttribute(CurInput, new),
               InputOp("valueAttribute", JsNull, new # Absent))

\* root.disabled = flag, root.readonly = flag, root.required = flag
AssignFlag(name, flag) ==
    ApplyInput(SetFlag(CurInput, name, flag), InputOp("flag", JsString(name), flag))

\* root.setAttribute(name, "") / root.removeAttribute(name)
WriteFlagAttribute(name, flag) ==
    ApplyInput(ToggleFlag(CurInput, name, flag),
               InputOp("flagAttribute", JsString(name), flag))

\* the user edits the inner <input> of text component i, which a disabled
\* or read-only <input> does not allow
TypeText(i, typed) ==
    /\ ~interfaces[i].disabled /\ ~interfaces[i].readonly
    /\ ApplyInput(TextHandleInput(CurInput, i, typed),
                  InputOp("event", JsNull, FALSE))

\* a key press on the focused slider i
SliderKeydown(i, key) ==
    /\ focused = i
    /\ ApplyInput(HandleKeyDown(CurInput, i, key),
                  InputOp("event", JsNull, FALSE))

\* the pointer goes down on slider i
MouseDown(i, pct) ==
    ApplyInput(HandleMouseDown(CurInput, i, pct),
               InputOp("event", JsNull, FALSE))

\* the pointer moves / goes up anywhere in the window
MouseMove(pct) ==
    ApplyInput(WindowMouseMove(CurInput, 1, pct),
               InputOp("event", JsNull, FALSE))
MouseUp ==
    ApplyInput(WindowMouseUp(CurInput, 1), InputOp("event", JsNull, FALSE))

\* the user moves focus to component i, or out of the input family
FocusComponent(i) ==
    /\ focused # i
    /\ ApplyInput(ComponentFocus(ComponentBlur(CurInput), i),
                  InputOp("event", JsNull, FALSE))
BlurComponent ==
    /\ focused # 0
    /\ ApplyInput(ComponentBlur(CurInput), InputOp("event", JsNull, FALSE))

\* a re-render callback queued for slider i runs
RunRerender(i, atZero) ==
    ApplyInput(RerenderTrick(CurInput, i, atZero), InputOp("event", JsNull, FALSE))

NextInput ==
    \/ \E v \in SetterValues : AssignValue(v)
    \/ \E new \in AttributeValues : WriteValueAttribute(new)
    \/ \E name \in Flags, flag \in BOOLEAN : AssignFlag(name, flag)
    \/ \E name \in Flags, flag \in BOOLEAN : WriteFlagAttribute(name, flag)
    \/ \E i \in TextComponents, typed \in TypedTexts : TypeText(i, typed)
    \/ \E i \in Sliders, key \in SliderKeys : SliderKeydown(i, key)
    \/ \E i \in Sliders, pct \in Positions : MouseDown(i, pct)
    \/ \E pct \in Positions : MouseMove(pct)
    \/ MouseUp
    \/ \E i \in DOMAIN interfaces : FocusComponent(i)
    \/ BlurComponent
    \/ \E i \in Sliders, atZero \in BOOLEAN : RunRerender(i, atZero)

SpecInput == InitInput /\ [][NextInput]_vars

\* ------------------------------------------------ either widget of a page
\* A page holding one of the two widgets: a select of few options or an
\* input family.
InitWidgets == InitFair \/ InitInput

NextWidgets ==
    \/ inputOp.op = "idle" /\ Next
    \/ inputOp.op # "idle" /\ NextInput

SpecWidgets == InitWidgets /\ [][NextWidgets]_vars

\* ------------------------------------------------ one slider, any range
\* A root holding a single <input-slider>, over several authored ranges and
\* pointer positions; the operation records the listener and its argument.
SliderRanges == {<<0, 100, 25>>, <<10, 100, 35>>, <<0, 10, 1>>}
PointerPositions == {-20, 5, 12, 13, 53, 120}

InitSlider ==
    /\ SelectIdle
    /\ \E attr \in AuthoredValues, d, ro \in BOOLEAN, k \in SliderRanges :
          LET s == UpdateInterfaceState(
                      [root |-> [value |-> IF attr = Absent THEN "" ELSE attr[1],
                                 attr |-> attr, disabled |-> d,
                                 readonly |-> ro, required |-> FALSE],
                       interfaces |-> <<SliderInterface(k[1], k[2], k[3])>>,
                       focused |-> 0,
                       notifications |-> <<>>, internal |-> <<>>])
          IN  /\ root = s.root
              /\ interfaces = s.interfaces
              /\ focused = s.focused
              /\ notifications = s.notifications
              /\ internal = s.internal
    /\ inputOp = InputOp("connected", JsNull, FALSE)
    /\ FinderIdle
    /\ RegistryIdle

\* the listeners that compute a value from the pointer position
PointerOps == {"mousedown", "mousemove"}

\* 'mousedown' on slider i
PointerDown(i, pct) ==
    ApplyInput(HandleMouseDown(CurInput, i, pct),
               InputOp("mousedown", JsNumber(pct), FALSE))

\* 'mousemove' / 'mouseup' on window; a 'mouseup' that directly follows a
\* pointer event is recorded with the position the pointer was at
PointerMove(pct) ==
    ApplyInput(WindowMouseMove(CurInput, 1, pct),
               InputOp("mousemove", JsNumber(pct), FALSE))
PointerUp ==
    ApplyInput(WindowMouseUp(CurInput, 1),
               InputOp("mouseup",
                       IF inputOp.op \in PointerOps THEN inputOp.arg ELSE JsNull,
                       FALSE))

\* 'keydown' on the focused slider i
KeyPress(i, key) ==
    /\ focused = i
    /\ ApplyInput(HandleKeyDown(CurInput, i, key),
                  InputOp("keydown", JsString(key), FALSE))

NextSlider ==
    \/ \E i \in Sliders, pct \in PointerPositions : PointerDown(i, pct)
    \/ \E pct \in PointerPositions : PointerMove(pct)
    \/ PointerUp
    \/ \E i \in Sliders, key \in SliderKeys : KeyPress(i, key)
    \/ \E i \in Sliders : FocusComponent(i)
    \/ BlurComponent
    \/ \E name \in {"disabled", "readonly"}, flag \in BOOLEAN :
          AssignFlag(name, flag)
    \/ AssignValue(JsString("abc"))
    \/ \E i \in Sliders, atZero \in BOOLEAN : RunRerender(i, atZero)

SpecSlider == InitSlider /\ [][NextSlider]_vars

\* ---------------------------------------- one slider, its range rewritten
\* attributeChangedCallback of 'min', 'max' and 'step': Number(newValue ||
\* default); the local value is left as it is
RangeAttributeChanged(c, name, new) ==
    [c EXCEPT ![name] = NumberOr(new, CASE name = "min" -> 0
                                        [] name = "max" -> 100
                                        [] OTHER -> 1)]

\* what a script writes to the range attributes
RangeWrites == {<<"min", <<"20">>>>, <<"max", <<"40">>>>, <<"step", <<"5">>>>}

\* slider.setAttribute(name, ...) by a script that keeps min < max
WriteRangeAttribute(i, name, new) ==
    LET c == RangeAttributeChanged(interfaces[i], name, new)
    IN  /\ c.min < c.max
        /\ ApplyInput([CurInput EXCEPT !.interfaces[i] = c],
                      InputOp(name, JsString(new[1]), FALSE))

NextRange ==
    \/ NextSlider
    \/ \E i \in Sliders, w \in RangeWrites : WriteRangeAttribute(i, w[1], w[2])

SpecRange == InitSlider /\ [][NextRange]_vars

\* ------------------------------------------- widgets detached, re-attached
\* The root holds one slider; a script takes a widget out of the document
\* and puts it back where it was.  The slider leaves and returns with the
\* root, or is moved by itself while the root stays attached.
ApplyLifecycle(s, r, op) ==
    /\ root' = s.root
    /\ interfaces' = s.interfaces
    /\ focused' = s.focused
    /\ notifications' = s.notifications
    /\ internal' = s.internal
    /\ inputOp' = op
    /\ registry' = r
    /\ UNCHANGED <<selectVars, finder>>

\* the widgets whose callbacks run when w leaves or enters the document
Moved(w) == IF w = "root" THEN {"root", "slider"} ELSE {w}

\* w.remove(): disconnectedCallback of w and of the slider inside it; an
\* element outside the document holds no focus
DetachWidget(w) ==
    /\ \A x \in Moved(w) : registry[x].attached
    /\ w = "slider" => registry["root"].attached
    /\ \A x \in Moved(w) : registry[x].binds < MaxBinds
    /\ ApplyLifecycle(
           [CurInput EXCEPT !.focused = IF "slider" \in Moved(w) THEN 0 ELSE @],
           IF w = "root"
           THEN Disconnected(Disconnected(registry, "root"), "slider")
           ELSE Disconnected(registry, w),
           InputOp("detach", JsString(w), FALSE))

\* parent.append(w): connectedCallback of w, then of the slider inside it.
\* The root reads its value attribute and pushes its state (lines 48-59),
\* the slider reads its own attributes and clamps (lines 277-283).
AttachWidget(w) ==
    /\ \A x \in Moved(w) : ~registry[x].attached
    /\ w = "slider" => registry["root"].attached
    /\ \A x \in Moved(w) : registry[x].binds < MaxBinds
    /\ LET s1 == IF w = "root"
                 THEN UpdateInterfaceState(
                          [CurInput EXCEPT !.root.value =
                              IF root.attr = Absent THEN ""
                              ELSE root.attr[1]])
                 ELSE CurInput
           c == s1.interfaces[1]
           s2 == IF "slider" \in Moved(w)
                 THEN [s1 EXCEPT !.interfaces[1].num =
                                     Clamp(c, NumberOr(c.value, c.min))]
                 ELSE s1
       IN  ApplyLifecycle(s2,
                          IF w = "root"
                          THEN Connected(Connected(registry, "root"), "slider")
                          ELSE Connected(registry, w),
                          InputOp("attach", JsString(w), FALSE))

\* the slider's listeners of one event type run one after the other
RECURSIVE RunListeners(_, _, _, _)
RunListeners(s, type, key, n) ==
    IF n = 0 THEN s
    ELSE RunListeners(IF type = "keydown" THEN HandleKeyDown(s, 1, key)
                      ELSE ComponentFocus(s, 1),
                      type, key, n - 1)

\* 'focus' arrives at the attached slider, or 'keydown' while it has focus:
\* every listener of that type registered on the slider runs
SliderEvent(type, key) ==
    /\ registry["slider"].attached
    /\ focused = (IF type = "keydown" THEN 1 ELSE 0)
    /\ ApplyLifecycle(
           RunListeners(CurInput, type, key,
                        Cardinality({l \in registry["slider"].listeners :
                                        l.target = "self" /\ l.type = type})),
           registry, InputOp(type, JsString(key), FALSE))

NextLifecycle ==
    \/ \E w \in Widgets : DetachWidget(w)
    \/ \E w \in Widgets : AttachWidget(w)
    \/ \E key \in SliderKeys : SliderEvent("keydown", key)
    \/ SliderEvent("focus", "")

SpecLifecycle == InitSlider /\ [][NextLifecycle]_vars

\* ============================================ the select of part_001
\* The earlier CustomSelect: click and keydown listeners only, navigation
\* among the options that are neither disabled nor selected.  It has the
\* state of the select above; `open` is the attribute and #isOpen, which
\* attributeChangedCallback keeps equal.
\* #focusItem
VariantFocusItem(s, item) ==
    IF item = NoItem THEN s
    ELSE [s EXCEPT !.focusedItem = item,
                   !.activeElement = IF options[item].disabled THEN @ ELSE item]

\* open() / close(): setAttribute / removeAttribute of "open" and the
\* attributeChangedCallback it runs; removing an absent attribute runs none
VariantOpenChanged(s, isOpen) ==
    IF ~isOpen /\ ~s.open THEN s
    ELSE LET s1 == [s EXCEPT !.open = isOpen]
         IN  IF isOpen /\ s1.selectedItem # NoItem
             THEN VariantFocusItem(s1, s1.selectedItem)
             ELSE IF ~isOpen THEN [s1 EXCEPT !.focusedItem = NoItem]
             ELSE s1

\* #setSelected: 'change' is dispatched before #updateTrigger
VariantSetSelected(s, item) ==
    LET s1 == IF s.selectedItem # NoItem
              THEN [s EXCEPT !.selectedAttr = @ \ {s.selectedItem}]
              ELSE s
        s2 == [s1 EXCEPT !.selectedItem = item,
                         !.calls = Append(@, [item |-> item,
                                              prev |-> s.selectedItem])]
        s3 == IF item # NoItem /\ ~options[item].disabled
              THEN LET s4 == [s2 EXCEPT !.selectedAttr = @ \cup {item}]
                   IN  [s4 EXCEPT !.events =
                           Append(@, [type |-> "change",
                                      value |-> SelectedValue(s4),
                                      selectedItem |-> s4.selectedItem,
                                      marked |-> s4.selectedAttr,
                                      label |-> s4.triggerText])]
              ELSE s2
    IN  UpdateTrigger(s3)

\* #handleClick
VariantHandleClick(s, target) ==
    IF target = TriggerEl THEN VariantOpenChanged(s, ~s.open)
    ELSE LET option == ClosestOption(target)
         IN  IF option # NoItem /\ option \notin s.selectedAttr
             THEN VariantOpenChanged(VariantSetSelected(s, option), FALSE)
             ELSE s

\* #handleKeydown
VariantHandleKeydown(s, target, key, shift) ==
    LET test == ":not([disabled],[selected])"
        allOptions == {i \in Enabled : i \notin s.selectedAttr}
        kids == Kids(s.selectedAttr)
        closedElement == IF s.selectedItem # NoItem THEN s.selectedItem
                         ELSE Min(allOptions)
        currentElement == IF s.focusedItem # NoItem THEN s.focusedItem
                          ELSE closedElement
        Step(from, direction) == getSiblingOfSameTag(kids, from, direction, test)
    IN  IF target = TriggerEl /\ ~s.open /\ key \in {"Enter", " "}
        THEN VariantOpenChanged(s, TRUE)
        ELSE IF allOptions = {} THEN s
        ELSE IF ~s.open
        THEN IF key \in {"ArrowDown", "ArrowUp"}
             THEN LET next == Step(closedElement,
                                   IF key = "ArrowDown" THEN 1 ELSE -1)
                  IN  IF next # NoItem THEN VariantSetSelected(s, next) ELSE s
             ELSE s
        ELSE CASE key \in {"ArrowDown", "Tab"} ->
                    VariantFocusItem(s, Step(currentElement,
                                             IF key = "Tab" /\ shift
                                             THEN -1 ELSE 1))
               [] key = "ArrowUp" ->
                    VariantFocusItem(s, Step(currentElement, -1))
               [] key \in {"Enter", " "} ->
                    LET s1 == IF s.focusedItem # NoItem
                                 /\ ~options[s.focusedItem].disabled
                                 /\ s.focusedItem \notin s.selectedAttr
                              THEN VariantOpenChanged(
                                       VariantSetSelected(s, s.focusedItem),
                                       FALSE)
                              ELSE s
                    IN  [s1 EXCEPT !.activeElement = TriggerEl]
               [] key = "Escape" ->
                    [VariantOpenChanged(s, FALSE)
                         EXCEPT !.activeElement = TriggerEl]
               [] OTHER -> s

\* a click on the trigger or on an option
VariantClick(el) ==
    Apply(VariantHandleClick(Cur, el), Op("click", "", el, ""))

\* a key press with focus inside the widget
VariantKeydown(key, shift) ==
    /\ activeElement # BodyEl
    /\ Apply(VariantHandleKeydown(Cur, activeElement, key, shift),
             [Op("keydown", key, activeElement, "") EXCEPT !.shift = shift])

\* the user moves focus to the trigger, to an option of the open group or
\* out of the widget; the widget listens to no focus event
VariantFocus(el) ==
    /\ el # activeElement
    /\ el \in Indices => open
    /\ Apply([Cur EXCEPT !.activeElement = el], Op("focus", "", el, ""))

NextVariant ==
    \/ \E el \in {TriggerEl} \cup Indices : VariantClick(el)
    \/ \E key \in {"Enter", " ", "ArrowDown", "ArrowUp", "Tab", "Escape", "a"},
          shift \in BOOLEAN : VariantKeydown(key, shift)
    \/ \E el \in {BodyEl, TriggerEl} \cup Indices : VariantFocus(el)

SpecVariant == Init /\ [][NextVariant]_vars

\* =================================================== getSiblingOfSameTag
\* The function as the loop it is: finder.pc is "called" before its first
\* line, "loop" at the head of an iteration, "returned" after a return.  The
\* element is a position in parent.children; an element without a parent
\* is position 0 of the empty list.
ChildKinds ==
    {[tag |-> "CUSTOM-OPTION", html |-> TRUE, disabled |-> FALSE, selected |-> FALSE],
     [tag |-> "CUSTOM-OPTION", html |-> TRUE, disabled |-> TRUE, selected |-> FALSE],
     [tag |-> "DIV", html |-> TRUE, disabled |-> FALSE, selected |-> FALSE],
     [tag |-> "svg", html |-> FALSE, disabled |-> FALSE, selected |-> FALSE]}
ChildLists == UNION {[1..n -> ChildKinds] : n \in 0..MaxSiblings}
Directions == {1, -1}
Tests == {"", ":not([disabled])"}

\* the HTML elements the function may be given
Callers(children) ==
    IF children = <<>> THEN {NoItem}
    ELSE {i \in DOMAIN children : children[i].html}

\* the lines before the loop
FinderStart(f) ==
    IF f.children = <<>> THEN [f EXCEPT !.result = NoItem, !.pc = "returned"]
    ELSE [f EXCEPT !.sibling = f.element, !.pc = "loop"]

\* never notices that the search is back at the starting element
FinderBodyNoStop(f) ==
    LET n == Len(f.children)
        candidate ==
            IF f.direction > 0
            THEN (IF f.sibling < n THEN f.sibling + 1 ELSE 1)
            ELSE (IF f.sibling > 1 THEN f.sibling - 1 ELSE n)
    IN  IF ~f.children[candidate].html
        THEN [f EXCEPT !.result = NoItem, !.pc = "returned"]
        ELSE IF candidate # f.element
                /\ f.children[candidate].tag = f.children[f.element].tag
                /\ Matches(f.children[candidate], f.test)
        THEN [f EXCEPT !.sibling = candidate, !.result = candidate,
                       !.pc = "returned"]
        ELSE [f EXCEPT !.sibling = candidate]

\* one iteration of the do ... while (true) loop
FinderBody(f) ==
    LET n == Len(f.children)
        candidate ==
            IF f.direction > 0
            THEN (IF f.sibling < n THEN f.sibling + 1 ELSE 1)
            ELSE (IF f.sibling > 1 THEN f.sibling - 1 ELSE n)
    IN  IF ~f.children[candidate].html
        THEN [f EXCEPT !.result = NoItem, !.pc = "returned"]
        ELSE IF candidate = f.element
        THEN [f EXCEPT !.sibling = candidate, !.result = NoItem,
                       !.pc = "returned"]
        ELSE IF f.children[candidate].tag = f.children[f.element].tag
                /\ Matches(f.children[candidate], f.test)
        THEN [f EXCEPT !.sibling = candidate, !.result = candidate,
                       !.pc = "returned"]
        ELSE [f EXCEPT !.sibling = candidate]

InitSibling ==
    /\ SelectIdle
    /\ InputIdle
    /\ RegistryIdle
    /\ \E children \in ChildLists :
          \E element \in Callers(children), direction \in Directions,
             test \in Tests :
              finder = [children |-> children, element |-> element,
                        direction |-> direction, test |-> test,
                        sibling |-> NoItem, result |-> NoItem, pc |-> "called"]

\* the call runs up to the loop
FinderEnter ==
    /\ finder.pc = "called"
    /\ finder' = FinderStart(finder)
    /\ UNCHANGED <<selectVars, inputVars, registry>>

\* it runs one iteration
FinderIterate ==
    /\ finder.pc = "loop"
    /\ finder' = FinderBody(finder)
    /\ UNCHANGED <<selectVars, inputVars, registry>>

\* after it returned, the function is called again on the same tree
FinderCall(element, direction, test) ==
    /\ finder.pc = "returned"
    /\ finder' = [finder EXCEPT !.element = element, !.direction = direction,
                                !.test = test, !.sibling = NoItem,
                                !.result = NoItem, !.pc = "called"]
    /\ UNCHANGED <<selectVars, inputVars, registry>>

NextSibling ==
    \/ FinderEnter
    \/ FinderIterate
    \/ \E element \in Callers(finder.children), direction \in Directions,
          test \in Tests : FinderCall(element, direction, test)

SpecSibling == InitSibling /\ [][NextSibling]_vars

\* a call is synchronous code: once entered, it runs on until it returns
SpecSiblingFair ==
    SpecSibling /\ WF_vars(FinderEnter) /\ WF_vars(FinderIterate)

\* ------------------------------------------------------- reference notions
Arrows == {"ArrowDown", "ArrowUp"}
DisabledOptions == Indices \ Enabled
DirectionOf(key) == IF key = "ArrowDown" THEN 1 ELSE -1

\* steps from one position to another going round the option list
RingDistance(from, to, direction) ==
    IF direction > 0 THEN (to - from) % Len(options)
    ELSE (from - to) % Len(options)

\* the eligible option met first going round from `from`, itself excluded
NextEligible(from, direction) ==
    LET others == Enabled \ {from}
    IN  IF others = {} THEN NoItem
        ELSE CHOOSE j \in others : \A k \in others :
                 RingDistance(from, j, direction) <= RingDistance(from, k, direction)

ClosedArrowPressed ==
    lastOp.op = "keydown" /\ lastOp.key \in Arrows /\ ~lastOp.wasOpen

\* ------------------------------------------------------------------ claims
ScenarioABC == <<[disabled |-> FALSE], [disabled |-> TRUE], [disabled |-> FALSE]>>

\* C1: with options [A, B(disabled), C], none selected, Closed: the first
\* ArrowDown selects A, the second skips B and selects C, the third wraps to A.
C1_ScenarioSelectsACA ==
    (/\ options = ScenarioABC
     /\ selectedAttr \subseteq {selectedItem}
     /\ ClosedArrowPressed /\ lastOp.key = "ArrowDown"
     /\ presses[1] = NoItem)
    => /\ presses[2] = 1
       /\ Len(presses) >= 3 => presses[3] = 3
       /\ Len(presses) >= 4 => presses[4] = 1

\* what the code does in that scenario: C, then A, then C
C1_ScenarioSelectsCAC ==
    (/\ options = ScenarioABC
     /\ selectedAttr \subseteq {selectedItem}
     /\ ClosedArrowPressed /\ lastOp.key = "ArrowDown"
     /\ presses[1] = NoItem)
    => /\ presses[2] = 3
       /\ Len(presses) >= 3 => presses[3] = 1
       /\ Len(presses) >= 4 => presses[4] = 3

C1_ThreePresses ==
    /\ options = ScenarioABC /\ selectedAttr \subseteq {selectedItem}
    /\ ClosedArrowPressed /\ lastOp.key = "ArrowDown"
    /\ presses[1] = NoItem /\ Len(presses) = 4

\* C2: in the Closed state an ArrowUp/ArrowDown press never opens the group
\* and, when an eligible option exists, leaves selectedItem on an eligible
\* option.
C2_ClosedArrowSelectsEligible ==
    ClosedArrowPressed
    => /\ ~open
       /\ Enabled # {} => selectedItem \in Enabled

\* the part of C2 the code keeps: the group stays Closed
C2_ClosedArrowStaysClosed == ClosedArrowPressed => ~open

\* C3: in the Open state an ArrowUp/ArrowDown press changes neither
\* selectedItem nor any selected marker nor the trigger label and emits no
\* 'change'; focusedItem moves to the next/previous eligible option, wrapping
\* (and stays when there is no other eligible option).
C3_OpenArrowMovesFocusOnly ==
    [][(open /\ lastOp'.op = "keydown" /\ lastOp'.key \in Arrows)
       => /\ selectedItem' = selectedItem
          /\ selectedAttr' = selectedAttr
          /\ triggerText' = triggerText
          /\ events' = <<>>
          /\ open'
          /\ focusedItem' =
                IF NextEligible(focusedItem, DirectionOf(lastOp'.key)) = NoItem
                THEN focusedItem
                ELSE NextEligible(focusedItem, DirectionOf(lastOp'.key))]_vars

\* ArrowDown in the Open state wrapped focus from the last option to the
\* first while the last option stayed selected
C3_FocusWrappedSelectionKept ==
    /\ lastOp.op = "keydown" /\ lastOp.key = "ArrowDown" /\ lastOp.wasOpen
    /\ Len(options) = 3 /\ lastOp.el = 3 /\ selectedItem = 3
    /\ focusedItem = 1 /\ activeElement = 1 /\ open

\* C4: with at least two enabled options and an enabled selected option X,
\* n = number of enabled options presses of ArrowDown (or of ArrowUp) in the
\* Closed state bring selectedItem back to X, through enabled options only.
C4_WrapAroundClosure ==
    (ClosedArrowPressed /\ Cardinality(Enabled) >= 2 /\ presses[1] \in Enabled)
    => /\ \A k \in 1..Len(presses) : presses[k] \in Enabled
       /\ Len(presses) = Cardinality(Enabled) + 1
            => presses[Len(presses)] = presses[1]

\* two ArrowDown presses over [A, B(disabled), C] starting at A: A, C, A
C4_RunReturned ==
    /\ ClosedArrowPressed /\ lastOp.key = "ArrowDown"
    /\ options = ScenarioABC
    /\ presses = <<1, 3, 1>>

\* a step that selects the option that is already selectedItem: a click on
\* it, Enter/Space while it is focusedItem in the Open state, or the
\* assignment of its value to selectedValue
Reselects ==
    /\ selectedItem # NoItem
    /\ \/ lastOp'.op = "click" /\ lastOp'.el = selectedItem
       \/ /\ lastOp'.op = "keydown" /\ lastOp'.key \in {"Enter", " "}
          /\ open /\ focusedItem = selectedItem
       \/ /\ lastOp'.op = "selectedValue"
          /\ lastOp'.value = OptionValues[selectedItem]

\* C5: selecting the option that is already selectedItem emits no 'change'.
C5_ReselectEmitsNoChange == [][Reselects => events' = <<>>]_vars

\* Enter on the focused, already selected option: #setSelected ran, silent
C5_ReselectedByEnter ==
    /\ lastOp.op = "keydown" /\ lastOp.key = "Enter" /\ lastOp.wasOpen
    /\ selectedItem # NoItem
    /\ calls = <<[item |-> selectedItem, prev |-> selectedItem]>>
    /\ events = <<>>

\* C6: re-selecting the already-selected option leaves selectedItem, the set
\* of options carrying the selected marker and the trigger label as they were.
C6_ReselectChangesNothing ==
    [][Reselects => /\ selectedItem' = selectedItem
                    /\ selectedAttr' = selectedAttr
                    /\ triggerText' = triggerText]_vars

\* C7: when #setSelected is given an eligible option N other than the current
\* selectedItem P (by a click, a closed-state arrow key, an Enter/Space commit
\* or the selectedValue setter), afterwards P does not carry the marker, N
\* does, selectedItem = N, the trigger label is N's text and exactly one
\* 'change' was emitted, carrying N's value.
C7_SelectingNewOption ==
    \A k \in 1..Len(calls) :
        (calls[k].item \in Enabled /\ calls[k].item # calls[k].prev)
        => /\ calls[k].item \in selectedAttr
           /\ calls[k].prev # NoItem => calls[k].prev \notin selectedAttr
           /\ selectedItem = calls[k].item
           /\ triggerText = Texts[calls[k].item]
           /\ Len(events) = 1
           /\ events[1].type = "change"
           /\ events[1].value = OptionValues[calls[k].item]

\* a click moved the selection from option 1 to option 2
C7_ClickMovedSelection ==
    /\ lastOp.op = "click" /\ lastOp.el = 2
    /\ calls = <<[item |-> 2, prev |-> 1]>>
    /\ selectedItem = 2 /\ selectedAttr = {2}

\* C8: in every reachable state at most one option carries the selected
\* marker.
C8_AtMostOneMarker == Cardinality(selectedAttr) <= 1

C10_EnterCommitsFocused ==
    [][(/\ open /\ focusedItem \in Enabled
        /\ lastOp'.op = "keydown" /\ lastOp'.key \in {"Enter", " "})
       => /\ selectedItem' = focusedItem
          /\ ~open'
          /\ activeElement' = TriggerEl]_vars

\* Space committed the focused option 2 over the selected option 1
C10_SpaceCommitted ==
    /\ lastOp.op = "keydown" /\ lastOp.key = " " /\ lastOp.wasOpen
    /\ lastOp.el = 2 /\ calls = <<[item |-> 2, prev |-> 1]>>
    /\ selectedItem = 2 /\ ~open /\ activeElement = TriggerEl

C13_ClickSelectsAndCloses ==
    (lastOp.op = "click" /\ lastOp.el \in Enabled)
    => /\ ~open
       /\ selectedItem = lastOp.el

\* the eligible option that opening the group focuses
OpeningTarget ==
    IF selectedItem # NoItem THEN selectedItem
    ELSE IF Enabled = {} THEN NoItem
    ELSE Min(Enabled)

\* a step that activates the trigger: a click on it, or Enter/Space on it
TriggerActivated ==
    \/ lastOp'.op = "click" /\ lastOp'.el = TriggerEl
    \/ /\ lastOp'.op = "keydown" /\ lastOp'.key \in {"Enter", " "}
       /\ lastOp'.el = TriggerEl

\* C14: from Closed, activating the trigger makes the group Open and moves
\* focus, and focusedItem, to selectedItem if there is one, otherwise to the
\* first eligible option.
C14_ActivationOpensAndFocuses ==
    [][(~open /\ TriggerActivated)
       => /\ open'
          /\ OpeningTarget # NoItem
               => /\ activeElement' = OpeningTarget
                  /\ focusedItem' = OpeningTarget]_vars

\* Enter on the trigger of a closed group whose option 2 is selected:
\* the group is Open and option 2 has focus
C14_EnterOpenedOnSelected ==
    /\ lastOp.op = "keydown" /\ lastOp.key = "Enter" /\ ~lastOp.wasOpen
    /\ lastOp.el = TriggerEl
    /\ Enabled = {1, 2, 3} /\ selectedItem = 2
    /\ open /\ activeElement = 2 /\ focusedItem = 2

\* C15: a group with zero eligible options never leaves Closed.
C15_NoEligibleStaysClosed == Enabled = {} => ~open

\* what the code keeps for a group with zero eligible options: it can be
\* opened, but it never has a selectedItem or a focusedItem, #setSelected is
\* never called and no 'change' is emitted.
C15_NoEligibleNeverSelects ==
    Enabled = {}
    => /\ selectedItem = NoItem
       /\ focusedItem = NoItem
       /\ calls = <<>>
       /\ events = <<>>

\* a click on a disabled option of an opened group without eligible options
C15_OpenedWithoutEligible ==
    /\ Enabled = {} /\ open
    /\ lastOp.op = "click" /\ lastOp.el \in DisabledOptions
    /\ selectedItem = NoItem

\* -------------------------------------------------- claims, input family
\* the internal events of one type handled during the last operation
InternalOf(type) == {k \in DOMAIN internal : internal[k].type = type}

\* C16: while the root's disabled flag is true, an InternalChange arriving
\* from any interface component leaves the canonical value unchanged and
\* emits no 'input'.
C16_DisabledRootIgnoresChange ==
    [][(root.disabled /\ InternalOf("change")' # {})
       => /\ root'.value = root.value
          /\ \A p \in DOMAIN notifications' : notifications'[p] # "input"]_vars

\* what String(v) is for the values a script assigns
CanonicalOf(v) ==
    CASE v.t = "null" -> "null"
      [] v.t = "string" -> v.s
      [] v = JsNumber(50) -> "50"
      [] v = JsNumber(150) -> "150"

\* what a slider makes of an assigned value: a number is clamped into
\* [min, max], the empty string gives min, any other text is not a number
SliderReading(v, c) ==
    IF v.t = "number"
    THEN (IF v.n < c.min THEN c.min ELSE IF v.n > c.max THEN c.max ELSE v.n)
    ELSE IF v.t = "string" /\ v.s = "" THEN c.min
    ELSE NaN

C18_ChangeUpdatesAndNotifiesOnce ==
    \A k \in InternalOf("change") :
        /\ internal[k].after = internal[k].value
        /\ internal[k].emitted = IF internal[k].differs THEN <<"input">> ELSE <<>>

\* one pointer move over two sliders in a drag session: the first change
\* differed and was notified, the second carried the value just stored
C18_SecondChangeSilent ==
    /\ inputOp.op = "event"
    /\ Len(internal) = 2
    /\ internal[1].type = "change" /\ internal[1].differs
    /\ internal[2].type = "change" /\ ~internal[2].differs
    /\ internal[2].value = internal[1].value
    /\ notifications = <<"input">>
    /\ root.value = internal[1].value

\* C19: on each InternalBlur exactly one 'change' and then exactly one 'blur'
\* are emitted, in that order; 'blur' is never emitted without a 'change'
\* immediately before it, and 'change' is never emitted on an InternalChange.
C19_BlurCommits ==
    /\ \A k \in InternalOf("blur") : internal[k].emitted = <<"change", "blur">>
    /\ \A p \in DOMAIN notifications :
          notifications[p] = "blur" => p > 1 /\ notifications[p - 1] = "change"
    /\ \A k \in InternalOf("change") :
          \A p \in DOMAIN internal[k].emitted : internal[k].emitted[p] # "change"

\* focus moved from component 1 to component 2: the blur of the first was
\* committed as 'change', 'blur' before the 'focus' of the second
C19_FocusMoved ==
    /\ inputOp.op = "event" /\ focused = 2
    /\ Len(internal) = 2
    /\ internal[1].type = "blur" /\ internal[1].source = 1
    /\ internal[2].type = "focus" /\ internal[2].source = 2
    /\ notifications = <<"change", "blur", "focus">>

\* C20: after the disabled, readonly or required flag of the root is set to
\* b (by the property setter or by an attribute change), every attached
\* interface component carries that flag exactly when b is true, and its
\* other two flags and its value are unchanged.
C20_FlagPushedAlone ==
    [][inputOp'.op \in {"flag", "flagAttribute"}
       => \A i \in DOMAIN interfaces :
            /\ interfaces'[i][inputOp'.arg.s] = inputOp'.flag
            /\ \A other \in Flags \ {inputOp'.arg.s} :
                  interfaces'[i][other] = interfaces[i][other]
            /\ interfaces'[i].value = interfaces[i].value
            /\ interfaces'[i].content = interfaces[i].content
            /\ interfaces'[i].num = interfaces[i].num]_vars

\* readonly set by an attribute change on a disabled root holding a text and
\* a slider that mirror "150": both components are now read-only too
C20_ReadonlyReachedBoth ==
    /\ inputOp.op = "flagAttribute" /\ inputOp.arg = JsString("readonly")
    /\ inputOp.flag
    /\ root.readonly /\ root.disabled /\ ~root.required /\ root.value = "150"
    /\ Len(interfaces) = 2
    /\ interfaces[1].kind = "text" /\ interfaces[2].kind = "slider"
    /\ \A i \in 1..2 : /\ interfaces[i].readonly /\ interfaces[i].disabled
                       /\ ~interfaces[i].required
                       /\ interfaces[i].value = <<"150">>

\* ------------------------------------------------------- claims, slider
\* C21: for all integers min < max, step > 0 and every pointer position, the
\* value computed from the pointer position satisfies min <= value <= max
\* and (value - min) is a multiple of step.
C21_PositionValueOnGrid ==
    inputOp.op \in PointerOps
    => \A k \in InternalOf("change") :
          LET c == interfaces[internal[k].source]
              value == StringToNumber(internal[k].value)
          IN  /\ c.min <= value /\ value <= c.max
              /\ (value - c.min) % c.step = 0

Abs(x) == IF x < 0 THEN -x ELSE x

\* the reference algorithm: the pointer fraction clamped to [0, 1], mapped
\* linearly to [min, max], snapped to a nearest step multiple offset from
\* min, clamped to [min, max]; pct is the fraction in percent
ReferenceValues(c, pct) ==
    LET fraction == IF pct < 0 THEN 0 ELSE IF pct > 100 THEN 100 ELSE pct
        span == c.max - c.min
        Distance(k) == Abs(100 * k * c.step - fraction * span)
        multiples == 0..((span \div c.step) + 1)
        nearest == {k \in multiples :
                       \A j \in multiples : Distance(k) <= Distance(j)}
    IN  {IF c.min + k * c.step > c.max THEN c.max ELSE c.min + k * c.step :
            k \in nearest}

\* C22: the value a slider computes from a pointer position is the one the
\* reference algorithm gives, and it becomes the canonical value; a release
\* that follows commits it ('change', then 'blur') and leaves it in place.
\* With min=0, max=100, step=25 a drag to 53% followed by release leaves
\* the canonical value "50".
C22_PositionMatchesReference ==
    [][/\ inputOp'.op \in PointerOps
          => \A k \in InternalOf("change")' :
                /\ StringToNumber(internal'[k].value)
                      \in ReferenceValues(interfaces'[internal'[k].source],
                                          inputOp'.arg.n)
                /\ root'.value = internal'[k].value
       /\ (inputOp.op \in PointerOps /\ InternalOf("change") # {}
           /\ inputOp'.op = "mouseup")
          => /\ \A k \in InternalOf("change") : root'.value = internal[k].value
             /\ notifications' = <<"change", "blur">>
             /\ (/\ interfaces[1].min = 0 /\ interfaces[1].max = 100
                 /\ interfaces[1].step = 25 /\ inputOp.arg.n = 53)
                => root'.value = "50"]_vars

\* the scenario: the pointer released at 53% of a 0..100 step 25 slider
C22_ReleasedAtFiftyThree ==
    /\ inputOp = InputOp("mouseup", JsNumber(53), FALSE)
    /\ interfaces[1].min = 0 /\ interfaces[1].max = 100
    /\ interfaces[1].step = 25
    /\ ~interfaces[1].isInteracting /\ interfaces[1].num = 50
    /\ root.value = "50" /\ root.attr = <<"50">>
    /\ notifications = <<"change", "blur">>

\* C23: a pointer-down on an enabled, non-readonly slider starts a drag
\* session (isInteracting becomes true) and computes a value at once; every
\* pointer-move in a session recomputes the value; the pointer-up of a
\* session sets isInteracting to false and emits exactly one InternalBlur
\* and no InternalChange, so the blur follows every change of the session;
\* pointer-move and pointer-up outside a session change nothing and emit
\* nothing; isInteracting changes at pointer-down and pointer-up only.
C23_DragSession ==
    [][\A i \in DOMAIN interfaces :
        LET before == interfaces[i]
            after == interfaces'[i]
            computed ==
                /\ Len(internal') = 1
                /\ internal'[1].type = "change" /\ internal'[1].source = i
                /\ StringToNumber(internal'[1].value)
                      \in ReferenceValues(before, inputOp'.arg.n)
                /\ after.num = StringToNumber(internal'[1].value)
        IN  /\ (inputOp'.op = "mousedown" /\ ~before.disabled
                /\ ~before.readonly)
               => after.isInteracting /\ computed
            /\ (inputOp'.op = "mousemove" /\ before.isInteracting)
               => after.isInteracting /\ computed
            /\ (inputOp'.op = "mouseup" /\ before.isInteracting)
               => /\ ~after.isInteracting
                  /\ Len(internal') = 1
                  /\ internal'[1].type = "blur" /\ internal'[1].source = i
            /\ (inputOp'.op \in {"mousemove", "mouseup"}
                /\ ~before.isInteracting)
               => /\ root' = root /\ interfaces' = interfaces
                  /\ focused' = focused
                  /\ internal' = <<>> /\ notifications' = <<>>
            /\ before.isInteracting # after.isInteracting
               => inputOp'.op \in {"mousedown", "mouseup"}]_vars

\* a session on the 0..100 step 25 slider that moved to 13% and was
\* released there: one InternalBlur, the value of the last move kept
C23_SessionEnded ==
    /\ inputOp = InputOp("mouseup", JsNumber(13), FALSE)
    /\ interfaces[1].max = 100 /\ interfaces[1].step = 25
    /\ ~interfaces[1].isInteracting /\ interfaces[1].num = 25
    /\ Len(internal) = 1 /\ internal[1].type = "blur"
    /\ root.value = "25"

\* where a key takes a slider whose value is `value`
KeyTarget(c, value, key) ==
    LET Up(n) == IF value = NaN THEN NaN
                 ELSE IF value + n > c.max THEN c.max ELSE value + n
        Down(n) == IF value = NaN THEN NaN
                   ELSE IF value - n < c.min THEN c.min ELSE value - n
    IN  CASE key \in {"ArrowRight", "ArrowUp"} -> Up(c.step)
          [] key \in {"ArrowLeft", "ArrowDown"} -> Down(c.step)
          [] key = "PageUp" -> Up(10 * c.step)
          [] key = "PageDown" -> Down(10 * c.step)
          [] key = "Home" -> c.min
          [] key = "End" -> c.max
          [] OTHER -> value

\* C24: for an enabled, non-readonly slider, ArrowRight/ArrowUp set the value
\* to min(max, value+step), ArrowLeft/ArrowDown to max(min, value-step),
\* PageUp/PageDown move by ten steps with the same clamping, Home sets min
\* and End sets max; a key press that changes the value emits exactly one
\* InternalChange carrying the new value, one that leaves it unchanged
\* emits none.
C24_KeysStepAndNotify ==
    [][\A i \in DOMAIN interfaces :
        (inputOp'.op = "keydown" /\ focused = i
         /\ ~interfaces[i].disabled /\ ~interfaces[i].readonly)
        => LET target == KeyTarget(interfaces[i], interfaces[i].num,
                                   inputOp'.arg.s)
           IN  /\ interfaces'[i].num = target
               /\ IF target # interfaces[i].num
                  THEN /\ Len(internal') = 1
                       /\ internal'[1].type = "change"
                       /\ internal'[1].value = NumberToString(target)
                  ELSE internal' = <<>>]_vars

\* --------------------------------------------------------- claims, text
\* C25: the text component emits InternalChange on an edit only when the
\* resulting content differs from the value already reflected upstream; an
\* edit whose result equals that value emits no InternalChange.
C25_SameContentSilent ==
    \A k \in InternalOf("change") :
        interfaces[internal[k].source].kind = "text" => internal[k].differs

\* ------------------------------------------- claims, getSiblingOfSameTag
\* the children other than the element that have its tag and pass the test
Qualifying(f) ==
    {j \in DOMAIN f.children \ {f.element} :
        /\ f.children[j].tag = f.children[f.element].tag
        /\ Matches(f.children[j], f.test)}

\* steps from the element to child j going round the child list
StepsTo(f, j) ==
    IF f.direction > 0 THEN (j - f.element) % Len(f.children)
    ELSE (f.element - j) % Len(f.children)

\* the qualifying child met first, none when there is none
FirstQualifying(f) ==
    IF Qualifying(f) = {} THEN NoItem
    ELSE CHOOSE j \in Qualifying(f) :
             \A k \in Qualifying(f) : StepsTo(f, j) <= StepsTo(f, k)

\* C26: find(node, direction, predicate) returns the first child met when
\* stepping from node in the direction, wrapping at either end, that has
\* node's tag and satisfies the predicate; it returns none exactly when no
\* other child of the parent qualifies, and never node itself.
C26_ReturnsFirstQualifying ==
    finder.pc = "returned"
    => /\ finder.result = FirstQualifying(finder)
       /\ finder.result = NoItem \/ finder.result # finder.element

\* C27: every call returns, whatever the child list, direction and test
\* (no parent, no or one qualifying sibling included), and no step of it
\* changes the tree.
C27_FinderTerminates ==
    /\ (finder.pc = "called") ~> (finder.pc = "returned")
    /\ [][finder'.children = finder.children]_vars

\* a call among children none of which qualifies came back to its starting
\* element and returned none
C27_WentRoundAndReturned ==
    /\ finder.pc = "returned" /\ finder.result = NoItem
    /\ Len(finder.children) = 3
    /\ \A j \in DOMAIN finder.children : finder.children[j].html
    /\ Qualifying(finder) = {}
    /\ finder.sibling = finder.element

\* ------------------------------------------ claims, deferred focus check
\* C28: the deferred focus-loss check closes the group only if, when it
\* runs, the group is Open and focus is outside the widget; run while
\* focus is inside, or while the group is Closed, it changes no state; in
\* neither case is anything emitted or selected.
C28_CheckClosesOnlyOutside ==
    [][lastOp'.op = "check"
       => /\ open' = (open /\ activeElement # BodyEl)
          /\ selectedItem' = selectedItem /\ selectedAttr' = selectedAttr
          /\ focusedItem' = focusedItem /\ activeElement' = activeElement
          /\ triggerText' = triggerText
          /\ events' = <<>> /\ calls' = <<>>]_vars

\* a check queued when focus went from one option to another, run while
\* focus is inside: the group is still Open
C28_StaleCheckKeptOpen ==
    /\ lastOp.op = "check" /\ lastOp.wasOpen
    /\ open /\ activeElement \in Indices /\ ~pendingCheck

\* C29: if focus moves from inside the widget to outside it while the group
\* is Open and does not return, then, the deferred check being run
\* eventually, the group eventually becomes Closed.
C29_FocusLossCloses ==
    (/\ lastOp.op = "focus" /\ lastOp.el = BodyEl /\ lastOp.wasOpen
     /\ open /\ activeElement = BodyEl)
    ~> (~open \/ activeElement # BodyEl)

\* the check found the focus outside the Open group and closed it
C29_ClosedByCheck ==
    /\ lastOp.op = "check" /\ lastOp.wasOpen
    /\ ~open /\ activeElement = BodyEl /\ ~pendingCheck

C31_RenderedEqualsCanonical ==
    inputOp.op # "idle"
    => \A i \in DOMAIN interfaces :
           IF interfaces[i].kind = "text"
           THEN interfaces[i].content = root.value
           ELSE /\ interfaces[i].num # NaN
                /\ interfaces[i].num = StringToNumber(root.value)

\* C32: an interface component that carries the disabled flag emits no
\* InternalChange, whatever the interleaving of flag pushes and user input:
\* every InternalChange of a step comes from a component that was not
\* disabled when the step began.
C32_DisabledChildSilent ==
    [][\A k \in InternalOf("change")' :
           ~interfaces[internal'[k].source].disabled]_vars

\* C33: in every reachable state of an attached slider, after any sequence
\* of value pushes, changes of the min, max and step attributes, key presses
\* and drags, its local value is a number with min <= value <= max.
C33_ValueWithinRange ==
    inputOp.op # "idle"
    => \A i \in Sliders :
           /\ interfaces[i].num # NaN
           /\ interfaces[i].min <= interfaces[i].num
           /\ interfaces[i].num <= interfaces[i].max

\* C34: in every reachable state of an attached slider, after any sequence
\* of value pushes from the root, key presses (Home and End included) and
\* drags, its local value is a number and (value - min) is a multiple of
\* step.
C34_ValueOnStepGrid ==
    inputOp.op # "idle"
    => \A i \in Sliders :
           /\ interfaces[i].num # NaN
           /\ (interfaces[i].num - interfaces[i].min) % interfaces[i].step = 0

C36_DetachedHoldsNoListener ==
    \A w \in Widgets : ~registry[w].attached => registry[w].listeners = {}

\* C37: after a slider was attached, detached and re-attached any number of
\* times, one arrow key press on it (enabled, not read-only) moves its value
\* by exactly one step, clamped, and emits exactly one InternalChange (none
\* when the value is already at the bound), as on first attachment.
C37_OneStepAfterReattach ==
    [][(inputOp'.op = "keydown"
        /\ inputOp'.arg.s \in {"ArrowRight", "ArrowUp", "ArrowLeft",
                               "ArrowDown"}
        /\ registry["slider"].attached
        /\ ~interfaces[1].disabled /\ ~interfaces[1].readonly)
       => LET target == KeyTarget(interfaces[1], interfaces[1].num,
                                  inputOp'.arg.s)
          IN  /\ interfaces'[1].num = target
              /\ Cardinality(InternalOf("change")')
                     = (IF target # interfaces[1].num THEN 1 ELSE 0)]_vars

\* ------------------------------------------------- claims, select and root
\* C38: in every reachable state of the select, if #selectedItem is present
\* that option carries the selected marker, it is the only option carrying
\* it, and selectedValue is the value of that option.
C38_SelectedItemIsTheMarked ==
    selectedItem # NoItem
    => /\ selectedItem \in selectedAttr
       /\ Cardinality(selectedAttr) = 1
       /\ \A o \in selectedAttr : SelectedValue(Cur) = OptionValues[o]

C40_EscapeClosesVariant ==
    [][(lastOp'.op = "keydown" /\ lastOp'.key = "Escape" /\ open)
       => ~open']_vars
====
